---- MODULE Spec2Model ----
(***************************************************************************)
(* Model of two fragments of rippled:                                      *)
(*   - WALCheckpointer (src/ripple/app/data/SociDB.cpp): the sqlite WAL    *)
(*     hook, the running_ gate, the checkpoint job and the owned thread;   *)
(*   - RPCSub (the C++ part of circle.yml): the bounded event deque and    *)
(*     its lazily started sendThread job.                                  *)
(* Each critical section (a ScopedLockType scope) is one atomic action;    *)
(* everything a thread does between two critical sections is its own step. *)
(***************************************************************************)
EXTENDS Integers, Sequences, FiniteSets

\* ------------------------------------------------------------------ bounds
MaxJobs == 2          \* job-queue slots for WAL checkpoint jobs
MaxSub == 2           \* saturation of the submitted-jobs counter
eventQueueMax == 3    \* RPCSub deque capacity (scaled down)
MaxSeq == 6           \* last sequence number a push may consume
MaxDrain == 2         \* job-queue slots for sendThread jobs

\* --------------------------------------------------------------- constants
checkpointPageCount == 1000

Writers == {"w1", "w2"}
PageCounts == {500, 1000, 1500}
Sessions == {"sqlite", "other_backend", "null_conn"}
Status == {"SQLITE_OK", "SQLITE_LOCKED", "SQLITE_ERROR"}
Payloads == {"a", "b"}

\* The notification sequence of the threshold scenario.
Scenario == <<500, 1500>>

Jobs == 1..MaxJobs
Executors == 0..MaxJobs       \* 0 is the owned "sqlitedb" thread
DrainJobs == 1..MaxDrain

VARIABLES
    session,    \* what the soci::session handed to makeCheckpointer holds
    handle,     \* result of makeCheckpointer
    cp,         \* lifetime of the WALCheckpointer object
    walHook,    \* context pointer registered with sqlite3_wal_hook
    running_,   \* WALCheckpointer::running_
    thread,     \* the beast::Thread owned by the checkpointer
    shouldExit, \* Thread::threadShouldExit
    notified,   \* Thread::notify pending
    wr,         \* writer threads inside sqliteWALHook/runCheckpoint
    ckpt,       \* activations of WALCheckpointer::checkpoint
    scen,       \* history: how far the hook invocations so far match Scenario
    nSub,       \* history: jobs handed to jobQueue_.addJob (saturating)
    lastRet,    \* history: status of the last finished primitive
    lastLog,    \* history: severity at which that status was logged
    lateCall,   \* history: the hook was invoked on a destroyed checkpointer
    missed,     \* history: a growth event of the live checkpointer's
                \* connection went to another checkpointer's hook
    mDeque,     \* RPCSub::mDeque
    mSeq,       \* RPCSub::mSeq
    mSending,   \* RPCSub::mSending
    drain,      \* sendThread jobs
    mLock,      \* RPCSub::mLock is held from one step to the next
    delivered,  \* history: seq numbers passed to RPCCall::fromNetwork
    evicted,    \* history: seq numbers dropped by send
    failed      \* history: seq numbers whose delivery threw

walVars == <<session, handle, cp, walHook, running_, thread, shouldExit,
             notified, wr, ckpt, scen, nSub, lastRet, lastLog, lateCall,
             missed>>
subVars == <<mDeque, mSeq, mSending, drain, mLock, delivered, evicted, failed>>
vars == <<walVars, subVars>>

IdleWriter == [pc |-> "idle", pages |-> 0, saw |-> "none", sub |-> 0, ret |-> "none"]
FreeCkpt == [pc |-> "free", by |-> "none", ret |-> "none"]
FreeDrain == [pc |-> "free", ev |-> <<>>]

Init ==
    /\ session \in Sessions
    /\ handle = "unset"
    /\ cp = "none"
    /\ walHook = "unset"
    /\ running_ = FALSE
    /\ thread = "none"
    /\ shouldExit = FALSE
    /\ notified = FALSE
    /\ wr = [w \in Writers |-> IdleWriter]
    /\ ckpt = [e \in Executors |-> FreeCkpt]
    /\ scen = 0
    /\ nSub = 0
    /\ lastRet = "none"
    /\ lastLog = "none"
    /\ lateCall = FALSE
    /\ missed = FALSE
    /\ mDeque = <<>>
    /\ mSeq = 1
    /\ mSending = FALSE
    /\ drain = [j \in DrainJobs |-> FreeDrain]
    /\ mLock = FALSE
    /\ delivered = <<>>
    /\ evicted = <<>>
    /\ failed = {}

\* ------------------------------------------------------ WALCheckpointer

\* getConnection: the sqlite backend's conn_; with another backend or a null
\* conn_ the result stays nullptr and std::logic_error is thrown.
getConnectionNoThrow(s) == IF s = "sqlite" THEN "conn" ELSE "nullptr"
getConnection(s) == IF s = "sqlite" THEN "conn" ELSE "logic_error"

\* The context pointer the constructor hands to sqlite3_wal_hook.
HookArg == "this"

\* makeCheckpointer: if (auto conn = getConnection (session)) make_unique
\* <WALCheckpointer>, else return {}; a throw of getConnection propagates.
\* The constructor: startThread, then sqlite3_wal_hook (.., this).
MakeCheckpointer ==
    /\ handle = "unset"
    /\ LET conn == getConnection(session) IN
         IF conn = "logic_error"
           THEN /\ handle' = "logic_error"
                /\ UNCHANGED <<cp, thread, walHook>>
           ELSE IF conn = "nullptr"
           THEN /\ handle' = "empty"
                /\ UNCHANGED <<cp, thread, walHook>>
           ELSE /\ handle' = "coordinator"
                /\ cp' = "alive"
                /\ thread' = "waiting"
                /\ walHook' = HookArg
    /\ UNCHANGED <<session, running_, shouldExit, notified, wr, ckpt, scen,
                   nSub, lastRet, lastLog,
                   lateCall, missed>>
    /\ UNCHANGED subVars

Sat(n, cap) == IF n < cap THEN n + 1 ELSE cap

\* sqliteWALHook: sqlite invokes the one hook registered on the connection,
\* with its context pointer, on the writing thread; a null context pointer
\* throws std::logic_error.  A hook registered by another checkpointer runs
\* on that object and does not touch this one.
SqliteWALHook(w, p) ==
    /\ walHook # "unset"
    /\ wr[w].pc = "idle"
    /\ IF walHook = "other"
         THEN /\ missed' = (missed \/ cp = "alive")
              /\ UNCHANGED <<wr, scen, lateCall>>
         ELSE /\ IF walHook = "null"
                   THEN wr' = [wr EXCEPT ![w] =
                                 [IdleWriter EXCEPT !.pages = p,
                                                    !.ret = "logic_error"]]
                   ELSE wr' = [wr EXCEPT ![w] =
                                 [IdleWriter EXCEPT !.pc = "runCheckpoint",
                                                    !.pages = p]]
              /\ scen' = IF /\ scen >= 0
                            /\ scen < Len(Scenario)
                            /\ Scenario[scen + 1] = p
                           THEN scen + 1 ELSE -1
              /\ lateCall' = (lateCall \/ cp = "destroyed")
              /\ UNCHANGED missed
    /\ UNCHANGED <<session, handle, cp, walHook, running_, thread, shouldExit,
                   notified, ckpt, nSub, lastRet, lastLog>>
    /\ UNCHANGED subVars

\* runCheckpoint: if (pages < checkpointPageCount) return;
BelowThresholdLE(pages) == pages <= checkpointPageCount
BelowThreshold(pages) == pages < checkpointPageCount

RunCheckpointThreshold(w) ==
    /\ wr[w].pc = "runCheckpoint"
    /\ IF BelowThreshold(wr[w].pages)
         THEN wr' = [wr EXCEPT ![w].pc = "idle", ![w].ret = "SQLITE_OK"]
         ELSE wr' = [wr EXCEPT ![w].pc = "gate"]
    /\ UNCHANGED <<session, handle, cp, walHook, running_, thread, shouldExit,
                   notified, ckpt, scen, nSub, lastRet, lastLog,
                   lateCall, missed>>
    /\ UNCHANGED subVars

\* runCheckpoint: { lock; if (running_) return; running_ = true; }
\* A read of running_ in a destroyed object yields either value.
GateBusyNever(flag) == FALSE
GateBusy(flag) == flag

RunCheckpointGate(w) ==
    /\ wr[w].pc = "gate"
    /\ \E flag \in (IF cp = "destroyed" THEN BOOLEAN ELSE {running_}) :
         IF GateBusy(flag)
           THEN /\ wr' = [wr EXCEPT ![w].pc = "idle", ![w].saw = "busy",
                                    ![w].ret = "SQLITE_OK"]
                /\ UNCHANGED running_
           ELSE /\ wr' = [wr EXCEPT ![w].pc = "addJob",
                                    ![w].saw = IF flag THEN "busy" ELSE "idle"]
                /\ running_' = TRUE
    /\ UNCHANGED <<session, handle, cp, walHook, thread, shouldExit,
                   notified, ckpt, scen, nSub, lastRet, lastLog,
                   lateCall, missed>>
    /\ UNCHANGED subVars

FreeJobs == {j \in Jobs : ckpt[j].pc = "free"}
FirstFree == CHOOSE j \in FreeJobs : \A k \in FreeJobs : j <= k

\* jobQueue_.addJob (jtWAL, "WAL", bind (&WALCheckpointer::checkpoint, this)):
\* the job waits in the queue for a worker.
AddedJobInline == [pc |-> "primitive", by |-> "none", ret |-> "none"]
AddedJob == [pc |-> "queued", by |-> "none", ret |-> "none"]

RunCheckpointAddJob(w) ==
    /\ wr[w].pc = "addJob"
    /\ FreeJobs # {}
    /\ ckpt' = [ckpt EXCEPT ![FirstFree] = AddedJob]
    /\ wr' = [wr EXCEPT ![w].pc = "idle", ![w].sub = 1, ![w].ret = "SQLITE_OK"]
    /\ nSub' = Sat(nSub, MaxSub)
    /\ UNCHANGED <<session, handle, cp, walHook, running_, thread, shouldExit,
                   notified, scen, lastRet, lastLog,
                   lateCall, missed>>
    /\ UNCHANGED subVars

\* A job-queue worker takes the job and enters checkpoint ():
\* sqlite3_wal_checkpoint_v2 (&conn_, nullptr, SQLITE_CHECKPOINT_PASSIVE, ..)
JobStart(j) ==
    /\ ckpt[j].pc = "queued"
    /\ ckpt' = [ckpt EXCEPT ![j].pc = "primitive", ![j].by = "worker"]
    /\ UNCHANGED <<session, handle, cp, walHook, running_, thread, shouldExit,
                   notified, wr, scen, nSub, lastRet, lastLog,
                   lateCall, missed>>
    /\ UNCHANGED subVars

\* checkpoint: WriteLog ((ret == SQLITE_LOCKED) ? lsTRACE : lsWARNING, ..)
\* when ret != SQLITE_OK, else WriteLog (lsTRACE, ..).
LogLevelWarnAll(ret) == IF ret # "SQLITE_OK" THEN "lsWARNING" ELSE "lsTRACE"
LogLevel(ret) ==
    IF ret # "SQLITE_OK"
      THEN (IF ret = "SQLITE_LOCKED" THEN "lsTRACE" ELSE "lsWARNING")
      ELSE "lsTRACE"

\* The primitive returns some status; checkpoint () logs it.
PrimitiveReturn(e, r) ==
    /\ ckpt[e].pc = "primitive"
    /\ ckpt' = [ckpt EXCEPT ![e].pc = "clear", ![e].ret = r]
    /\ lastRet' = r
    /\ lastLog' = LogLevel(r)
    /\ UNCHANGED <<session, handle, cp, walHook, running_, thread, shouldExit,
                   notified, wr, scen, nSub, lateCall, missed>>
    /\ UNCHANGED subVars

\* checkpoint: ScopedLockType sl (mutex_); running_ = false;
\* (a job that outlives the checkpointer writes the flag where it was).
ClearsOnlyOnOK(ret) == ret = "SQLITE_OK"
Clears(ret) == TRUE

CheckpointClear(e) ==
    /\ ckpt[e].pc = "clear"
    /\ running_' = IF Clears(ckpt[e].ret) THEN FALSE ELSE running_
    /\ ckpt' = [ckpt EXCEPT ![e] = FreeCkpt]
    /\ thread' = IF e = 0 THEN "waiting" ELSE thread
    /\ UNCHANGED <<session, handle, cp, walHook, shouldExit, notified, wr,
                   scen, nSub, lastRet, lastLog,
                   lateCall, missed>>
    /\ UNCHANGED subVars

\* run: if (threadShouldExit ()) break;
ExitRequestedNever(flag) == FALSE
ExitRequested(flag) == flag

\* run: for (;;) { wait (); if (threadShouldExit ()) break; checkpoint (); }
\* wait () returns on Thread::notify, which only stopThread calls.
ThreadWake ==
    /\ thread = "waiting"
    /\ notified
    /\ notified' = FALSE
    /\ IF ExitRequested(shouldExit)
         THEN /\ thread' = "exited"
              /\ UNCHANGED ckpt
         ELSE /\ thread' = "checkpoint"
              /\ ckpt' = [ckpt EXCEPT ![0] = [pc |-> "primitive",
                                              by |-> "sqlitedb", ret |-> "none"]]
    /\ UNCHANGED <<session, handle, cp, walHook, running_, shouldExit, wr,
                   scen, nSub, lastRet, lastLog,
                   lateCall, missed>>
    /\ UNCHANGED subVars

\* ~WALCheckpointer: stopThread () signals exit, notifies, then joins.
\* The hook registration is left as it is.
DestructorBegin ==
    /\ cp = "alive"
    /\ cp' = "destroying"
    /\ shouldExit' = TRUE
    /\ notified' = TRUE
    /\ UNCHANGED <<session, handle, walHook, running_, thread, wr, ckpt,
                   scen, nSub, lastRet, lastLog,
                   lateCall, missed>>
    /\ UNCHANGED subVars

DestructorEnd ==
    /\ cp = "destroying"
    /\ thread = "exited"
    /\ cp' = "destroyed"
    /\ UNCHANGED <<session, handle, walHook, running_, thread, shouldExit,
                   notified, wr, ckpt, scen, nSub, lastRet, lastLog,
                   lateCall, missed>>
    /\ UNCHANGED subVars

Next ==
    \/ MakeCheckpointer
    \/ \E w \in Writers, p \in PageCounts : SqliteWALHook(w, p)
    \/ \E w \in Writers : RunCheckpointThreshold(w)
    \/ \E w \in Writers : RunCheckpointGate(w)
    \/ \E w \in Writers : RunCheckpointAddJob(w)
    \/ \E j \in Jobs : JobStart(j)
    \/ \E e \in Executors, r \in Status : PrimitiveReturn(e, r)
    \/ \E e \in Executors : CheckpointClear(e)
    \/ ThreadWake
    \/ DestructorBegin
    \/ DestructorEnd

Spec == Init /\ [][Next]_vars

\* A second makeCheckpointer on the same session: the constructor of the
\* new WALCheckpointer calls sqlite3_wal_hook on the same connection, which
\* has one hook and replaces the registration of the first.
MakeCheckpointerAgain ==
    /\ handle = "coordinator"
    /\ walHook = HookArg
    /\ walHook' = "other"
    /\ UNCHANGED <<session, handle, cp, running_, thread, shouldExit, notified,
                   wr, ckpt, scen, nSub, lastRet, lastLog, lateCall, missed>>
    /\ UNCHANGED subVars

TwoNext == Next \/ MakeCheckpointerAgain

TwoSpec == Init /\ [][TwoNext]_vars

\* ------------------------------------------------------------- RPCSub

Seqs(q) == [i \in 1..Len(q) |-> q[i][1]]

\* send: if (mDeque.size () >= eventQueueMax)
IsFullGT(q) == Len(q) > eventQueueMax
IsFull(q) == Len(q) >= eventQueueMax

\* send: mDeque.pop_back ()   ("Drop the previous event.")
DropFront(q) == SubSeq(q, 2, Len(q))
Drop(q) == SubSeq(q, 1, Len(q) - 1)
Dropped(q) == q[Len(q)]

\* send: if (!mSending) start a sending thread.
StartNeededAlways(sending) == TRUE
StartNeededNever(sending) == FALSE
StartNeeded(sending) == ~sending

FreeDrains == {j \in DrainJobs : drain[j].pc = "free"}
FirstFreeDrain == CHOOSE j \in FreeDrains : \A k \in FreeDrains : j <= k

\* send: std::make_pair (mSeq++, jvObj), on every path through send.
NextSeqUnlessFull(seq, full) == IF full THEN seq ELSE seq + 1
NextSeq(seq, full) == seq + 1

\* RPCSub::send, all of it under mLock.
Send(obj) ==
    /\ ~mLock
    /\ mSeq <= MaxSeq
    /\ StartNeeded(mSending) => FreeDrains # {}
    /\ LET kept == IF IsFull(mDeque) THEN Drop(mDeque) ELSE mDeque IN
         /\ mDeque' = Append(kept, <<mSeq, obj>>)
         /\ evicted' = IF IsFull(mDeque)
                         THEN Append(evicted, Dropped(mDeque)[1]) ELSE evicted
    /\ mSeq' = NextSeq(mSeq, IsFull(mDeque))
    /\ IF StartNeeded(mSending)
         THEN /\ mSending' = TRUE
              /\ drain' = [drain EXCEPT ![FirstFreeDrain].pc = "queued"]
         ELSE UNCHANGED <<mSending, drain>>
    /\ UNCHANGED <<mLock, delivered, failed>>
    /\ UNCHANGED walVars

\* A job-queue worker takes the job and enters sendThread.
SendThreadStart(j) ==
    /\ drain[j].pc = "queued"
    /\ drain' = [drain EXCEPT ![j].pc = "lock"]
    /\ UNCHANGED <<mDeque, mSeq, mSending, mLock, delivered, evicted, failed>>
    /\ UNCHANGED walVars

\* sendThread: pEvent = mDeque.front (); mDeque.pop_front ();
TakeBack(q) == q[Len(q)]
Take(q) == Head(q)
Rest(q) == Tail(q)

\* sendThread: the ScopedLockType scope closes before "Send outside of
\* the lock", so the lock is not held when fromNetwork is called.
HeldWhileSendingYes == TRUE
HeldWhileSending == FALSE

\* sendThread, the scope of mLock: on an empty deque clear mSending and
\* bSend, else take the front event.
SendThreadLock(j) ==
    /\ ~mLock
    /\ drain[j].pc = "lock"
    /\ IF mDeque = <<>>
         THEN /\ mSending' = FALSE
              /\ drain' = [drain EXCEPT ![j].pc = "exit"]
              /\ UNCHANGED <<mDeque, mLock>>
         ELSE /\ drain' = [drain EXCEPT ![j] = [pc |-> "send", ev |-> Take(mDeque)]]
              /\ mDeque' = Rest(mDeque)
              /\ mLock' = HeldWhileSending
              /\ UNCHANGED mSending
    /\ UNCHANGED <<mSeq, delivered, evicted, failed>>
    /\ UNCHANGED walVars

\* sendThread outside the lock: RPCCall::fromNetwork with jvEvent["seq"];
\* an exception is caught and logged, and the loop goes on (bSend is true).
\* sendThread: the catch block only logs; the event is not put back.
AfterThrowRequeue(q, ev) == <<ev>> \o q
AfterThrow(q, ev) == q

SendThreadDeliver(j, ok) ==
    /\ drain[j].pc = "send"
    /\ delivered' = Append(delivered, drain[j].ev[1])
    /\ failed' = IF ok THEN failed ELSE failed \cup {drain[j].ev[1]}
    /\ mDeque' = IF ok THEN mDeque ELSE AfterThrow(mDeque, drain[j].ev)
    /\ drain' = [drain EXCEPT ![j] = [pc |-> "lock", ev |-> <<>>]]
    /\ mLock' = FALSE
    /\ UNCHANGED <<mSeq, mSending, evicted>>
    /\ UNCHANGED walVars

\* sendThread: while (bSend) fails and the job returns.
SendThreadReturn(j) ==
    /\ drain[j].pc = "exit"
    /\ drain' = [drain EXCEPT ![j] = FreeDrain]
    /\ UNCHANGED <<mDeque, mSeq, mSending, mLock, delivered, evicted, failed>>
    /\ UNCHANGED walVars

SubNext ==
    \/ \E obj \in Payloads : Send(obj)
    \/ \E j \in DrainJobs : SendThreadStart(j)
    \/ \E j \in DrainJobs : SendThreadLock(j)
    \/ \E j \in DrainJobs, ok \in BOOLEAN : SendThreadDeliver(j, ok)
    \/ \E j \in DrainJobs : SendThreadReturn(j)

SubSpec == Init /\ [][SubNext]_vars

\* The job queue runs a submitted sendThread job, mLock is obtained, and a
\* call of RPCCall::fromNetwork returns or throws.
SubLiveSpec ==
    /\ SubSpec
    /\ \A j \in DrainJobs : WF_vars(SendThreadStart(j))
    /\ \A j \in DrainJobs : WF_vars(SendThreadLock(j))
    /\ \A j \in DrainJobs : WF_vars(\E ok \in BOOLEAN : SendThreadDeliver(j, ok))

\* A started primitive returns (a passive checkpoint does not wait for
\* other connections) and the short critical section on mutex_ is entered.
LiveSpec ==
    /\ Spec
    /\ \A e \in Executors : WF_vars(\E r \in Status : PrimitiveReturn(e, r))
    /\ \A e \in Executors : WF_vars(CheckpointClear(e))

\* ------------------------------------------------- WALCheckpointer claims

Exists == cp \in {"alive", "destroying"}
InFlight == {j \in Jobs : ckpt[j].pc # "free"}
InPrimitive == {e \in Executors : ckpt[e].pc = "primitive"}
AllReturned == \A w \in Writers : wr[w].pc = "idle"

\* C1: while the checkpointer exists, at most one checkpoint job is queued
\* or executing, and at most one execution of the checkpoint primitive is
\* under way, whatever the interleaving of hook calls and workers.
C1_AtMostOneCheckpointJob ==
    Exists => /\ Cardinality(InFlight) <= 1
              /\ Cardinality(InPrimitive) <= 1

\* A burst: one writer was turned away, another is at the gate, while the
\* single job executes the primitive.
C1_Witness ==
    /\ cp = "alive"
    /\ \E j \in Jobs : ckpt[j].pc = "primitive"
    /\ \E w \in Writers : wr[w].pc = "idle" /\ wr[w].saw = "busy"
    /\ \E w \in Writers : wr[w].pc = "gate"

\* C2: a hook call submits a job exactly when its page count is at least
\* checkpointPageCount and it found running_ false under the lock (every
\* call at or above the threshold does make that check); it then holds
\* running_ set until it has submitted its one job.  With notifications
\* 500 then 1500 there is no job after the first and one after the second.
C2_SubmitsIffQualifiesAndIdle ==
    Exists =>
      /\ \A w \in Writers :
           (wr[w].pc = "idle" /\ wr[w].ret # "none") =>
             /\ wr[w].sub = 1 <=> (/\ wr[w].pages >= checkpointPageCount
                                   /\ wr[w].saw = "idle")
             /\ wr[w].pages >= checkpointPageCount => wr[w].saw # "none"
      /\ \A w \in Writers :
           wr[w].pc = "addJob" => (running_ /\ wr[w].saw = "idle" /\ wr[w].sub = 0)
      /\ (AllReturned /\ scen = 1) => nSub = 0
      /\ (AllReturned /\ scen = 2) => nSub = 1

C2_Witness ==
    /\ cp = "alive"
    /\ AllReturned
    /\ scen = 2
    /\ nSub = 1
    /\ \E w \in Writers : wr[w].pages = 1500 /\ wr[w].sub = 1

\* C3: a started checkpoint clears running_ whatever status the primitive
\* returned; a call at the gate that finds running_ clear sets it and goes
\* on to submit, and that submission puts one more job in the queue.
C3_ClearsThenRetriggers ==
    /\ \A e \in Executors :
         (Exists /\ ckpt[e].pc = "primitive") ~> (~running_ \/ cp = "destroyed")
    /\ [][\A w \in Writers :
            (Exists /\ wr[w].pc = "gate" /\ ~running_ /\ wr'[w] # wr[w])
              => (running_' /\ wr'[w].pc = "addJob")]_vars
    /\ [][\A w \in Writers :
            (wr[w].pc = "addJob" /\ wr'[w].pc # "addJob")
              => (\E j \in Jobs : ckpt[j].pc = "free" /\ ckpt'[j].pc = "queued")]_vars

\* After a checkpoint that ended SQLITE_LOCKED a new job is in the queue.
C3_Witness ==
    /\ cp = "alive"
    /\ lastRet = "SQLITE_LOCKED"
    /\ InPrimitive = {}
    /\ \E j \in Jobs : ckpt[j].pc = "queued"

\* C4: the destructor removes the callback, so no growth event on the
\* still open connection invokes the hook of a destroyed checkpointer.
C4_NoHookAfterDestroy ==
    /\ cp = "destroyed" => walHook = "unset"
    /\ ~lateCall

\* C5: the primitive is only ever executed by a job-queue worker or the
\* owned thread, never inside the hook call, and every hook call returns
\* SQLITE_OK whether or not it scheduled a job.
C5_HookOnlySchedules ==
    /\ \A e \in Executors :
         ckpt[e].pc = "primitive" => ckpt[e].by \in {"worker", "sqlitedb"}
    /\ \A w \in Writers : wr[w].ret \in {"none", "SQLITE_OK"}
    /\ \A w \in Writers :
         (wr[w].pc = "idle" /\ wr[w].pages # 0) => wr[w].ret = "SQLITE_OK"

C5_Witness ==
    /\ \E w \in Writers : wr[w].ret = "SQLITE_OK" /\ wr[w].sub = 1
    /\ \E w \in Writers : wr[w].ret = "SQLITE_OK" /\ wr[w].sub = 0
    /\ \E j \in Jobs : ckpt[j].pc = "primitive" /\ ckpt[j].by = "worker"

\* C10 as stated: on a session without a usable connection makeCheckpointer
\* returns an empty handle.
C10_EmptyHandleWhenUnusable ==
    (handle # "unset" /\ session # "sqlite") => handle = "empty"

\* C10 amended: on such a session makeCheckpointer ends in the
\* std::logic_error of getConnection, with no checkpointer, no registered
\* callback and no thread; on a sqlite connection it returns a checkpointer
\* whose thread is started and whose hook is registered.
C10_ThrowsWhenUnusable ==
    handle # "unset" =>
      IF session = "sqlite"
        THEN /\ handle = "coordinator"
             /\ cp # "none"
             /\ walHook = "this"
             /\ thread # "none"
        ELSE /\ handle = "logic_error"
             /\ cp = "none"
             /\ walHook = "unset"
             /\ thread = "none"

C10_Witness == handle = "logic_error" /\ session = "null_conn"

\* C11: a checkpoint job never reads or writes a destroyed checkpointer:
\* once the object is destroyed no job takes a step of checkpoint () (its
\* reads of conn_, its lock of mutex_, its write of running_); only a free
\* queue slot may change.
C11_NoJobTouchesDestroyed ==
    [][cp = "destroyed" =>
         \A j \in Jobs : ckpt'[j] # ckpt[j] => ckpt[j].pc = "free"]_vars

\* C13: whatever status the primitive returned, checkpoint () goes on to
\* its final critical section and the checkpointer is left idle and usable;
\* SQLITE_OK and SQLITE_LOCKED are logged at lsTRACE, any other status at
\* lsWARNING.
C13_OutcomeLoggedNotEscalated ==
    /\ lastRet = "none" <=> lastLog = "none"
    /\ lastRet \in {"SQLITE_OK", "SQLITE_LOCKED"} => lastLog = "lsTRACE"
    /\ lastRet \in Status \ {"SQLITE_OK", "SQLITE_LOCKED"} => lastLog = "lsWARNING"
    /\ \A e \in Executors : ckpt[e].pc = "clear" => ckpt[e].ret \in Status
    /\ (/\ Exists
        /\ lastRet # "none"
        /\ InFlight = {}
        /\ \A w \in Writers : wr[w].pc # "addJob") => ~running_

\* After a checkpoint that ended in another error, logged as a warning, a
\* new job has been accepted.
C13_Witness ==
    /\ cp = "alive"
    /\ lastRet = "SQLITE_ERROR"
    /\ lastLog = "lsWARNING"
    /\ InPrimitive = {}
    /\ \E j \in Jobs : ckpt[j].pc = "queued"

\* C14: while the checkpointer is alive it is the hook registered on its
\* connection, and no growth event of the connection goes to another
\* checkpointer, also when a second one is made over the same connection.
C14_ExclusiveObserver ==
    /\ cp = "alive" => walHook = "this"
    /\ ~missed

\* C15: a hook call below the threshold returns without looking at
\* running_, and one that finds running_ set returns at once; neither
\* changes running_, the queued or executing jobs, or the number of jobs
\* submitted.
C15_NoEffectBelowOrBusy ==
    /\ [](Exists =>
            \A w \in Writers :
              (wr[w].pc = "idle" /\ wr[w].ret # "none") =>
                /\ wr[w].pages < checkpointPageCount =>
                     (wr[w].saw = "none" /\ wr[w].sub = 0)
                /\ wr[w].saw = "busy" => wr[w].sub = 0)
    /\ [][Exists =>
            \A w \in Writers :
              (wr[w].pc \in {"runCheckpoint", "gate"} /\ wr'[w].pc = "idle")
                => (running_' = running_ /\ ckpt' = ckpt /\ nSub' = nSub)]_vars
    /\ [][Exists =>
            \A w \in Writers :
              (wr[w].pc = "gate" /\ running_ /\ wr'[w] # wr[w])
                => (wr'[w].pc = "idle" /\ wr'[w].saw = "busy")]_vars

\* A 500-page call and a second 1500-page call have returned while the one
\* job of the first 1500-page call is still in flight.
C15_Witness ==
    /\ cp = "alive"
    /\ \E w \in Writers :
         wr[w].pc = "idle" /\ wr[w].pages = 1500 /\ wr[w].saw = "busy"
    /\ \E w \in Writers :
         wr[w].pc = "idle" /\ wr[w].pages = 500 /\ wr[w].ret = "SQLITE_OK"
    /\ Cardinality(InFlight) = 1
    /\ nSub = 1

AtAddJob == {w \in Writers : wr[w].pc = "addJob"}

\* C16: while the checkpointer exists, running_ is set exactly when a hook
\* call stands between its critical section and addJob or a job is queued
\* or executing, and there is one such holder at most; the owned thread
\* never clears the flag under a job.
C16_RunningIffPending ==
    Exists =>
      /\ running_ <=> (AtAddJob # {} \/ InFlight # {})
      /\ Cardinality(AtAddJob) + Cardinality(InFlight) <= 1

\* After an earlier checkpoint, a call has set the flag and not yet
\* submitted its job.
C16_Witness ==
    /\ cp = "alive"
    /\ lastRet # "none"
    /\ running_
    /\ AtAddJob # {}
    /\ InFlight = {}

\* C20: the destructor ends only when the owned thread has left run (), and
\* the thread, which wakes only for the stop request, never checkpoints.
C20_ThreadJoinedNoCheckpoint ==
    /\ cp = "destroyed" => thread = "exited"
    /\ thread = "exited" => shouldExit
    /\ thread # "checkpoint"
    /\ ckpt[0].pc = "free"

C20_Witness ==
    /\ cp = "destroyed"
    /\ thread = "exited"
    /\ ~notified

\* ----------------------------------------------------------- RPCSub claims

Pushed == mSeq - 1
NoPopYet == delivered = <<>> /\ \A j \in DrainJobs : drain[j].pc # "send"
Active == {j \in DrainJobs : drain[j].pc \in {"queued", "lock", "send"}}
Increasing(q) == \A i, k \in 1..Len(q) : i < k => q[i] < q[k]

\* C6 as stated: a push on a full buffer discards the front, so capacity + k
\* pushes without a drain leave the newest capacity entries in order.
C6_KeepsNewest ==
    (NoPopYet /\ Pushed > eventQueueMax) =>
      Seqs(mDeque) = [i \in 1..eventQueueMax |-> Pushed - eventQueueMax + i]

\* C6 amended: a push on a full buffer discards the back (the entry pushed
\* just before) and admits the new entry, so capacity + k pushes without a
\* drain leave the oldest capacity - 1 entries followed by the newest one.
C6_KeepsOldestAndNewest ==
    /\ [](NoPopYet /\ Pushed > eventQueueMax =>
            /\ Seqs(mDeque) = [i \in 1..eventQueueMax |->
                                 IF i < eventQueueMax THEN i ELSE Pushed]
            /\ evicted = [i \in 1..(Pushed - eventQueueMax) |->
                            eventQueueMax + i - 1])
    /\ [][(mSeq' # mSeq /\ Len(mDeque) >= eventQueueMax) =>
            /\ Len(mDeque') = Len(mDeque)
            /\ SubSeq(mDeque', 1, Len(mDeque) - 1)
                 = SubSeq(mDeque, 1, Len(mDeque) - 1)
            /\ mDeque'[Len(mDeque')][1] = mSeq
            /\ evicted' = Append(evicted, mDeque[Len(mDeque)][1])]_vars

C6_Witness ==
    /\ NoPopYet
    /\ Pushed = eventQueueMax + 2
    /\ Len(evicted) = 2

\* C7: the deque never holds more than eventQueueMax entries.
C7_BufferBounded == Len(mDeque) <= eventQueueMax

C7_Witness ==
    /\ Len(mDeque) = eventQueueMax
    /\ evicted # <<>>
    /\ delivered # <<>>

\* C8: the sequence numbers passed to delivery are strictly increasing (so
\* none is delivered twice), each event taken but not yet delivered is newer
\* than all delivered ones, and no delivered event had been dropped.
C8_DeliveryIncreasing ==
    /\ Increasing(delivered)
    /\ \A j \in DrainJobs : drain[j].pc = "send" =>
         \A i \in 1..Len(delivered) : delivered[i] < drain[j].ev[1]
    /\ \A i \in 1..Len(delivered), k \in 1..Len(evicted) :
         delivered[i] # evicted[k]

\* Deliveries on both sides of an eviction, by a second worker started
\* after the first one had stopped.
C8_Witness ==
    /\ Len(delivered) >= 3
    /\ evicted # <<>>
    /\ delivered[1] < evicted[1]
    /\ evicted[1] < delivered[Len(delivered)]
    /\ \E j \in DrainJobs : drain[j].pc = "exit"
    /\ Active # {}

\* C9: at most one sendThread job is queued or inside its loop, and
\* mSending is set exactly while there is one.
C9_OneDrainWorker ==
    /\ Cardinality(Active) <= 1
    /\ mSending <=> Active # {}

\* A push has started a new job while the previous one is still returning.
C9_Witness ==
    /\ \E j \in DrainJobs : drain[j].pc = "exit"
    /\ \E j \in DrainJobs : drain[j].pc = "send"
    /\ mDeque # <<>>

InDeque(n) == \E i \in 1..Len(mDeque) : mDeque[i][1] = n
InHand(n) == \E j \in DrainJobs : drain[j].pc = "send" /\ drain[j].ev[1] = n
Attempts(n) == {i \in 1..Len(delivered) : delivered[i] = n}

\* C12: an event whose delivery threw is neither in the deque nor taken
\* again and was attempted exactly once; the worker leaves a delivery,
\* failed or not, for the top of its loop with mSending still set; and
\* mSending is cleared only in a step that finds the deque empty.
C12_FailureKeepsDraining ==
    /\ [](\A n \in failed :
            ~InDeque(n) /\ ~InHand(n) /\ Cardinality(Attempts(n)) = 1)
    /\ [][\A j \in DrainJobs :
            (drain[j].pc = "send" /\ drain'[j].pc # "send")
              => (drain'[j].pc = "lock" /\ mSending /\ mSending'
                  /\ mDeque' = mDeque)]_vars
    /\ [][(mSending /\ ~mSending') => mDeque = <<>>]_vars

\* A failed delivery was followed by the delivery of the next event, and
\* only afterwards did the worker stop on the empty deque.
C12_Witness ==
    /\ Len(delivered) >= 2
    /\ delivered[1] \in failed
    /\ delivered[2] \notin failed
    /\ ~mSending
    /\ evicted = <<>>
    /\ \A j \in DrainJobs : j > 1 => drain[j].pc = "free"

WasEvicted(n) == \E i \in 1..Len(evicted) : evicted[i] = n

\* C17: a non-empty deque always has mSending set; every buffered event
\* is in the end passed to delivery unless send drops it; and once the
\* pushes have ended the worker clears mSending on the empty deque.
C17_NoEventStranded ==
    /\ [](mDeque # <<>> => mSending)
    /\ \A n \in 1..MaxSeq :
         InDeque(n) ~> (Attempts(n) # {} \/ WasEvicted(n))
    /\ (mSending /\ mSeq > MaxSeq) ~> (~mSending /\ mDeque = <<>>)

\* Everything pushed was delivered or dropped and the worker has stopped.
C17_Witness ==
    /\ ~mSending
    /\ mDeque = <<>>
    /\ evicted # <<>>
    /\ Len(delivered) >= eventQueueMax
    /\ \A j \in DrainJobs : drain[j].pc # "send"

\* C18: while an event is being delivered mLock is free, so that send can
\* run, and the event is no longer in the deque, so send cannot drop it.
C18_DeliversOutsideLock ==
    \A j \in DrainJobs :
      drain[j].pc = "send" =>
        /\ ~mLock
        /\ mSeq <= MaxSeq => ENABLED (\E obj \in Payloads : Send(obj))
        /\ ~InDeque(drain[j].ev[1])
        /\ ~WasEvicted(drain[j].ev[1])

\* The deque is full again while an event is in delivery: a push (and an
\* eviction) went through after the worker had taken it.
C18_Witness ==
    /\ \E j \in DrainJobs : drain[j].pc = "send"
    /\ Len(mDeque) = eventQueueMax
    /\ evicted # <<>>

Places(n) ==
    Cardinality({i \in 1..Len(mDeque) : mDeque[i][1] = n})
      + Cardinality({j \in DrainJobs : drain[j].pc = "send" /\ drain[j].ev[1] = n})
      + Cardinality(Attempts(n))
      + Cardinality({i \in 1..Len(evicted) : evicted[i] = n})

\* C19: the pushes so far have used the numbers 1 .. mSeq - 1, one each:
\* every such number is in exactly one place (deque, in delivery,
\* delivered, dropped), dropped or not; the deque is strictly increasing
\* from front to back and holds no number that is yet to be assigned.
C19_OneNumberPerPush ==
    /\ mSeq >= 1
    /\ \A n \in 1..(mSeq - 1) : Places(n) = 1
    /\ Increasing(Seqs(mDeque))
    /\ \A i \in 1..Len(mDeque) : mDeque[i][1] >= 1 /\ mDeque[i][1] < mSeq
    /\ \A i \in 1..Len(evicted) : evicted[i] < mSeq
    /\ Increasing(evicted)

C19_Witness ==
    /\ Pushed >= eventQueueMax + 2
    /\ Len(evicted) >= 2
    /\ delivered # <<>>
    /\ Len(mDeque) >= 2

====
